---- MODULE Spec2Model ----
(***************************************************************************)
(* Vroom Racer: src/App.tsx (game state, handlers, high score) and         *)
(* src/components/GameScene.tsx (Items / SceneContent frame loop and the   *)
(* Controller sensor loop).                                                *)
(*                                                                         *)
(* Numbers the source keeps as floats are kept here in fixed point:        *)
(*   speed            hundredths           (80 is 8000)                    *)
(*   volume           1/1280               (0.1 is 128, 1.0 is 1280)       *)
(*   steering, angle  thousandths                                          *)
(*   x, z, worldX     tenths               (4.5 is 45)                     *)
(*   delta            milliseconds                                         *)
(*   Math.random()    hundredths           (0.15 is 15)                    *)
(* Divisions round down (\div).                                            *)
(***************************************************************************)
EXTENDS Integers, Sequences, FiniteSets

VARIABLES
    \* ---- App state (useState) ----
    speed, steering, score, isClenched, terrain, gameStatus, timeLeft,
    highScore, canRestart,
    \* ---- App refs (useRef), written by the passive effects ----
    terrainRef, gameStatusRef,
    \* ---- what the timer effect's closure holds, pending timeouts ----
    timerScore,        \* `score` as finishGame sees it inside the interval callback
    cooldownPending,   \* the setTimeout(() => setCanRestart(true), 1000) is pending
    \* ---- browser ----
    storage,           \* localStorage: a function from the keys present to strings
    now,               \* Date.now(), ms
    \* ---- Controller ----
    videoFresh,        \* video.currentTime # lastVideoTimeRef.current
    sensor,            \* the arguments of the last onUpdate call
    \* ---- scene ----
    items, worldX,
    hits,              \* per slot: callbacks fired since the slot was last spawned
    \* ---- history ----
    game,              \* interval callbacks and finishGame calls of the current game
    last               \* the operation that produced this state

appVars   == <<speed, steering, score, isClenched, terrain, gameStatus, timeLeft,
               highScore, canRestart, terrainRef, gameStatusRef, timerScore,
               cooldownPending>>
sceneVars == <<items, worldX, hits>>
vars      == <<appVars, storage, now, videoFresh, sensor, sceneVars, game, last>>

-----------------------------------------------------------------------------
(* Bounds of the model *)

MaxScore == 6
PoolSize == 2
GameSeconds == 3
MaxWeeks == 2
MaxWorldX == 300

-----------------------------------------------------------------------------
(* Program constants *)

VOLUME_THRESHOLD == 128
MAX_EFFECTIVE_VOLUME == 640
MAX_SPEED == 8000
ONE_WEEK == 7 * 24 * 60 * 60 * 1000

Abs(n) == IF n < 0 THEN -n ELSE n
Min(a, b) == IF a < b THEN a ELSE b
Max(a, b) == IF a > b THEN a ELSE b
Sign(n) == IF n > 0 THEN 1 ELSE IF n < 0 THEN -1 ELSE 0

-----------------------------------------------------------------------------
(* localStorage and the high score: App.tsx 88-120 *)

\* Number.prototype.toString for a non-negative integer: its decimal digits.
RECURSIVE toString(_)
toString(n) == IF n < 10 THEN <<n>> ELSE Append(toString(n \div 10), n % 10)

\* parseInt(s, 10) on a non-empty digit string.
RECURSIVE parseInt(_)
parseInt(s) == IF Len(s) = 1 THEN s[1]
              ELSE 10 * parseInt(SubSeq(s, 1, Len(s) - 1)) + s[Len(s)]

KeyScore == "voom_highscore"
KeyDate  == "voom_highscore_date"

SetItem(st, k, v) == [x \in (DOMAIN st) \cup {k} |-> IF x = k THEN v ELSE st[x]]
RemoveItem(st, k) == [x \in (DOMAIN st) \ {k} |-> st[x]]
\* !localStorage.getItem(k): the key is absent (null) or holds "".
Falsy(st, k) == k \notin DOMAIN st \/ st[k] = <<>>

\* getWeeklyHighScore: the value returned and the storage it leaves, at time t.
WeeklyExpired(st, t) == t - parseInt(st[KeyDate]) > ONE_WEEK

GetWeeklyHighScore(st, t) ==
    IF Falsy(st, KeyScore) \/ Falsy(st, KeyDate)
    THEN [value |-> 0, storage |-> st]
    ELSE IF WeeklyExpired(st, t)
         THEN [value |-> 0,
               storage |-> SetItem(RemoveItem(st, KeyScore), KeyDate, toString(t))]
         ELSE [value |-> parseInt(st[KeyScore]), storage |-> st]

\* saveHighScore that also keeps the record it replaces, under a third key.
SaveHighScoreKeepingOld(st, t, newScore) ==
    LET cur == GetWeeklyHighScore(st, t)
    IN  IF newScore > cur.value
        THEN [value |-> newScore,
              storage |-> SetItem(SetItem(SetItem(cur.storage, "voom_highscore_old",
                                                  toString(cur.value)),
                                          KeyScore, toString(newScore)),
                                  KeyDate, toString(t))]
        ELSE [value |-> cur.value, storage |-> cur.storage]

\* saveHighScore(newScore): the value returned and the storage it leaves.
SaveHighScore(st, t, newScore) ==
    LET cur == GetWeeklyHighScore(st, t)
    IN  IF newScore > cur.value
        THEN [value |-> newScore,
              storage |-> SetItem(SetItem(cur.storage, KeyScore, toString(newScore)),
                                  KeyDate, toString(t))]
        ELSE [value |-> cur.value, storage |-> cur.storage]

-----------------------------------------------------------------------------
(* handleSensorUpdate's arithmetic: App.tsx 217-269 *)

\* targetSpeed before the terrain penalty (lines 223-229).
TargetSpeed(vol, fists) ==
    IF vol > VOLUME_THRESHOLD /\ fists
    THEN Min(MAX_SPEED,
             ((vol - VOLUME_THRESHOLD) * MAX_SPEED)
                 \div (MAX_EFFECTIVE_VOLUME - VOLUME_THRESHOLD))
    ELSE 0

\* A target without the terrain penalty.
PenalisedNowhere(target, tref) == target

\* Terrain penalty (lines 238-240).
Penalised(target, tref) == IF tref = "grass" THEN (target * 3) \div 10 ELSE target

\* Lerp, snap to zero, clamp (lines 242-258).
Lerp(prev, target) ==
    LET factor == IF target > prev THEN 5 ELSE 10
    IN  prev + ((target - prev) * factor) \div 100

\* A lerp without the snap to zero.
SnapNever(n) == n

Snap(n) == IF Abs(n) < 10 THEN 0 ELSE n

Clamp(n) == Max(0, Min(n, MAX_SPEED))

NextSpeed(prev, vol, fists, tref) ==
    Clamp(Snap(Lerp(prev, Penalised(TargetSpeed(vol, fists), tref))))

\* A start that does not look at the status.
StartsGameWhenever(vol, fists, sref) ==
    vol > VOLUME_THRESHOLD /\ fists /\ TargetSpeed(vol, fists) > 100

\* START GAME LOGIC (lines 230-234): the updater calls setGameStatus('playing').
StartsGame(vol, fists, sref) ==
    /\ vol > VOLUME_THRESHOLD /\ fists
    /\ sref = "idle"
    /\ TargetSpeed(vol, fists) > 100

\* floor(sqrt(n))
RECURSIVE SqrtSearch(_, _, _)
SqrtSearch(n, lo, hi) ==
    IF lo >= hi THEN lo
    ELSE LET mid == (lo + hi + 1) \div 2
         IN  IF mid * mid <= n THEN SqrtSearch(n, mid, hi) ELSE SqrtSearch(n, lo, mid - 1)
ISqrt(n) == SqrtSearch(n, 0, 2000)

\* setSteering's updater (lines 262-269): sign * |s|^1.5, * -1.2, smoothing 0.1.
NextSteering(prev, s) ==
    LET curved == Sign(s) * ((Abs(s) * ISqrt(Abs(s) * 1000)) \div 1000)
        target == -((curved * 12) \div 10)
    IN  prev + (target - prev) \div 10

-----------------------------------------------------------------------------
(* Controller.processFrame's arithmetic: GameScene.tsx 547-573, 607-696 *)

\* The analyser's first 50 bins all at `level` (0..255): rms = level,
\* currentVolume = min(rms / 128, 1).
Volume(level) == 10 * Min(level, 128)

\* A hand is [curled |-> number of digits the five tests of isFist count as curled,
\*            x, y |-> landmark 9 in hundredths of the frame].
isFist(hand) == hand.curled >= 3

\* Math.atan2(dy, dx) for dx >= 0, in thousandths of a radian;
\* atan(t) is taken as t / (1 + 0.28 t^2), mirrored about pi/4 for |t| > 1.
Atan2(dy, dx) ==
    IF dx = 0 THEN Sign(dy) * 1571
    ELSE IF Abs(dy) <= dx
         THEN (1000 * 100 * dy * dx) \div (100 * dx * dx + 28 * dy * dy)
         ELSE Sign(dy) * 1571 - (1000 * 100 * dy * dx) \div (100 * dy * dy + 28 * dx * dx)

\* Steering calculation (lines 650-668); sort is stable, so equal x keeps the order.
SteeringOf(hand1, hand2) ==
    LET leftHand  == IF hand2.x < hand1.x THEN hand2 ELSE hand1
        rightHand == IF hand2.x < hand1.x THEN hand1 ELSE hand2
        angle == Atan2(rightHand.y - leftHand.y, rightHand.x - leftHand.x)
        clampedAngle == Max(-600, Min(angle, 600))
    IN  (clampedAngle * 1500) \div 600

\* What processFrame hands to onUpdate, given the video branch was entered or not.
Reading(level, hands, fresh) ==
    IF fresh /\ Len(hands) = 2
    THEN [volume |-> Volume(level),
          steering |-> SteeringOf(hands[1], hands[2]),
          fists |-> isFist(hands[1]) /\ isFist(hands[2])]
    ELSE [volume |-> Volume(level), steering |-> 0, fists |-> FALSE]

-----------------------------------------------------------------------------
(* Initial state: App.tsx 124-142, GameScene.tsx 217-226, 368, 464 *)

Did(name) == [op |-> name, lights |-> 0, pineapples |-> 0, trees |-> 0,
              free |-> -1, slot |-> -1, wanted |-> FALSE]

InitItem(i) == [id |-> i, type |-> "light", x |-> 0, z |-> -5000 - i * 100,
                active |-> FALSE]

Init ==
    /\ speed = 0 /\ steering = 0 /\ score = 0 /\ isClenched = FALSE
    /\ terrain = "road" /\ gameStatus = "idle" /\ timeLeft = GameSeconds
    /\ storage = [k \in {} |-> <<>>]
    /\ now = 0
    /\ highScore = GetWeeklyHighScore(storage, now).value
    /\ canRestart = FALSE
    /\ terrainRef = "road" /\ gameStatusRef = "idle"
    /\ timerScore = 0 /\ cooldownPending = FALSE
    /\ videoFresh = TRUE
    /\ sensor = [volume |-> 0, steering |-> 0, fists |-> FALSE]
    /\ items = [i \in 0 .. PoolSize - 1 |-> InitItem(i)]
    /\ worldX = 0
    /\ hits = [i \in 0 .. PoolSize - 1 |-> 0]
    /\ game = [ticks |-> 0, finishes |-> 0]
    /\ last = Did("init")

-----------------------------------------------------------------------------
(* React plumbing: App.tsx 145-147, 166-181 *)

\* The passive effects of a commit run some time after it, and at the latest before
\* the next render starts. A step that re-renders App (some state changed) therefore
\* leaves the refs at the values the previous commit rendered.
Rerendered ==
    <<speed, steering, score, isClenched, terrain, gameStatus, timeLeft, highScore,
      canRestart>>' #
    <<speed, steering, score, isClenched, terrain, gameStatus, timeLeft, highScore,
      canRestart>>

FlushBeforeRender ==
    IF Rerendered
    THEN gameStatusRef' = gameStatus /\ terrainRef' = terrain
    ELSE UNCHANGED <<gameStatusRef, terrainRef>>

\* The timer effect (deps [gameStatus]) re-runs when gameStatus changes; the interval
\* callback it creates calls the finishGame of that render, whose `score` is fixed.
TimerEffect ==
    timerScore' = IF gameStatus' = "playing" /\ gameStatus # "playing"
                  THEN score' ELSE timerScore

\* useEffect(() => { terrainRef.current = terrain }) and the gameStatus one.
SyncRefs ==
    /\ gameStatusRef # gameStatus \/ terrainRef # terrain
    /\ gameStatusRef' = gameStatus
    /\ terrainRef' = terrain
    /\ last' = Did("syncRefs")
    /\ UNCHANGED game
    /\ UNCHANGED <<speed, steering, score, isClenched, terrain, gameStatus, timeLeft,
                   highScore, canRestart, timerScore, cooldownPending>>
    /\ UNCHANGED <<storage, now, videoFresh, sensor, sceneVars>>

-----------------------------------------------------------------------------
(* handleSensorUpdate: App.tsx 208-270 *)

\* tref is terrainRef.current as the setSpeed updater reads it: the updater runs either
\* at once (the stale ref) or in the next render, after the pending effects.
handleSensorUpdate(newVolume, newSteering, bothFistsClenched, tref) ==
    /\ isClenched' = bothFistsClenched
    /\ IF gameStatusRef = "finished"
       THEN /\ speed' = 0
            /\ UNCHANGED <<steering, gameStatus>>
       ELSE /\ speed' = NextSpeed(speed, newVolume, bothFistsClenched, tref)
            /\ gameStatus' = IF StartsGame(newVolume, bothFistsClenched, gameStatusRef)
                             THEN "playing" ELSE gameStatus
            /\ steering' = NextSteering(steering, newSteering)
    /\ UNCHANGED <<score, terrain, timeLeft, highScore, canRestart, cooldownPending>>
    /\ TimerEffect
    /\ FlushBeforeRender

\* Controller.processFrame (GameScene.tsx 607-697), called once per animation frame.
ProcessFrame(level, hands) ==
    LET r == Reading(level, hands, videoFresh)
    IN  /\ videoFresh' = FALSE
        /\ sensor' = r
        /\ \E tref \in {terrainRef, terrain} :
               handleSensorUpdate(r.volume, r.steering, r.fists, tref)
        /\ last' = Did("processFrame")
        /\ game' = IF gameStatus' = "playing" /\ gameStatus # "playing"
                   THEN [ticks |-> 0, finishes |-> 0] ELSE game
        /\ UNCHANGED <<storage, now, sceneVars>>

\* The camera delivers its next frame: video.currentTime moves on.
VideoFrame ==
    /\ ~videoFresh
    /\ videoFresh' = TRUE
    /\ last' = Did("videoFrame")
    /\ UNCHANGED game
    /\ UNCHANGED <<appVars, storage, now, sensor, sceneVars>>

-----------------------------------------------------------------------------
(* Timer, finishGame, restartGame: App.tsx 166-200 *)

finishGame ==
    LET saved == SaveHighScore(storage, now, timerScore)
    IN  /\ gameStatus' = "finished"
        /\ speed' = 0
        /\ storage' = saved.storage
        /\ highScore' = saved.value
        /\ canRestart' = FALSE
        /\ cooldownPending' = TRUE

\* An interval that also runs before the game has started.
TimerRunningUnlessFinished == gameStatus # "finished"

\* The interval exists while the effect's condition held at the last commit (line 168).
TimerRunning == gameStatus = "playing"

\* An expiry test that lets the timer run one tick longer.
ExpiredAtZero(prev) == prev <= 0

\* if (prev <= 1) (line 171)
Expired(prev) == prev <= 1

\* What the setTimeLeft updater returns (lines 170-177).
NextTimeLeft(prev) == IF Expired(prev) THEN 0 ELSE prev - 1

\* One firing of the setInterval callback. A 1000 ms timeout set earlier fires first.
TimerTick ==
    /\ TimerRunning
    /\ ~cooldownPending
    /\ timeLeft' = NextTimeLeft(timeLeft)
    /\ IF Expired(timeLeft)
       THEN finishGame
       ELSE UNCHANGED <<gameStatus, speed, storage, highScore, canRestart,
                        cooldownPending>>
    /\ UNCHANGED <<steering, score, isClenched, terrain>>
    /\ TimerEffect
    /\ FlushBeforeRender
    /\ last' = Did(IF Expired(timeLeft) THEN "finishGame" ELSE "tick")
    /\ game' = [ticks |-> game.ticks + 1,
                finishes |-> game.finishes + (IF Expired(timeLeft) THEN 1 ELSE 0)]
    /\ UNCHANGED <<now, videoFresh, sensor, sceneVars>>

\* setTimeout(() => setCanRestart(true), 1000)
RestartCooldown ==
    /\ cooldownPending
    /\ cooldownPending' = FALSE
    /\ canRestart' = TRUE
    /\ UNCHANGED <<speed, steering, score, isClenched, terrain, gameStatus, timeLeft,
                   highScore>>
    /\ TimerEffect
    /\ FlushBeforeRender
    /\ last' = Did("cooldown")
    /\ UNCHANGED game
    /\ UNCHANGED <<storage, now, videoFresh, sensor, sceneVars>>

\* A click on the GO button, which is rendered while gameStatus is 'finished'
\* (lines 422, 444-449). A click is a discrete event: its effects run with the commit.
restartGame ==
    /\ gameStatus = "finished"
    /\ score' = 0
    /\ timeLeft' = GameSeconds
    /\ gameStatus' = "idle"
    /\ gameStatusRef' = "idle"
    /\ terrainRef' = terrain
    /\ TimerEffect
    /\ last' = Did("restartGame")
    /\ UNCHANGED game
    /\ UNCHANGED <<speed, steering, isClenched, terrain, highScore, canRestart,
                   cooldownPending>>
    /\ UNCHANGED <<storage, now, videoFresh, sensor, sceneVars>>

-----------------------------------------------------------------------------
(* handleScore, handleCrash, handleTerrainChange: App.tsx 272-296 *)

\* The callbacks one scene frame makes: onScore('light') lights times,
\* onScore('pineapple') pineapples times, onCrash trees times, then
\* onTerrainChange(type). All run before App renders again.
\* Updaters that pay a pineapple like a light.
ScoreAfterFlat(s, lights, pineapples) == s + lights + pineapples

\* The setScore updaters of handleScore (lines 275-279), composed.
ScoreAfter(s, lights, pineapples) == s + lights + 5 * pineapples

Callbacks(lights, pineapples, trees, type) ==
    /\ ScoreAfter(score, lights, pineapples) <= MaxScore
    /\ IF gameStatusRef = "finished"
       THEN UNCHANGED <<score, speed>>
       ELSE /\ score' = ScoreAfter(score, lights, pineapples)
            /\ speed' = IF trees > 0 THEN 0 ELSE speed
    /\ terrain' = type
    /\ UNCHANGED <<steering, isClenched, gameStatus, timeLeft, highScore, canRestart,
                   cooldownPending>>
    /\ TimerEffect
    /\ FlushBeforeRender
    /\ UNCHANGED game

-----------------------------------------------------------------------------
(* Items and SceneContent, one animation frame: GameScene.tsx 231-318, 370-381 *)

\* const moveDist = speed * delta * 0.8
MoveDist(speedProp, delta) == (speedProp * delta * 8) \div 100000

\* A find that falls back on slot 0 when every slot is active.
AvailableOrFirst(pool) ==
    IF \E i \in DOMAIN pool : ~pool[i].active
    THEN CHOOSE i \in DOMAIN pool :
             ~pool[i].active /\ \A j \in DOMAIN pool : ~pool[j].active => i <= j
    ELSE 0

\* items.find(i => !i.active): the lowest inactive slot, or -1 for undefined.
Available(pool) ==
    IF \E i \in DOMAIN pool : ~pool[i].active
    THEN CHOOSE i \in DOMAIN pool :
             ~pool[i].active /\ \A j \in DOMAIN pool : ~pool[j].active => i <= j
    ELSE -1

\* The fields a spawn writes (lines 240-260). rnd holds the Math.random() results in
\* the order they are drawn: roll, r, then u1 and u2 for the position, then zr.
SpawnedItem(item, rnd) ==
    LET kind == IF rnd.r < 50 THEN "tree" ELSE IF rnd.r < 98 THEN "light" ELSE "pineapple"
        side == IF rnd.u1 > 50 THEN 1 ELSE -1
        xpos == IF kind = "tree" THEN side * (220 + rnd.u2 * 4)
                ELSE IF kind = "light" THEN (rnd.u1 - 50) * 3
                ELSE (rnd.u1 - 50) * 2
    IN  [item EXCEPT !.active = TRUE, !.type = kind, !.x = xpos,
                     !.z = -3000 - rnd.zr * 10]

\* Spawn logic (lines 235-263): the slot spawned into, or -1.
SpawnSlot(pool, speedProp, rnd) ==
    IF Abs(speedProp) > 100 /\ Available(pool) # -1 /\ rnd.roll < 15
    THEN Available(pool) ELSE -1

AfterSpawn(pool, speedProp, rnd) ==
    LET slot == SpawnSlot(pool, speedProp, rnd)
    IN  [i \in DOMAIN pool |-> IF i = slot THEN SpawnedItem(pool[i], rnd) ELSE pool[i]]

\* The callback one item's turn of the forEach makes (lines 297-311), for an item
\* already moved to z: "crash", "light", "pineapple" or "none".
Collision(item, z, wx) ==
    LET dist == Abs(item.x - wx)
    IN  IF z > -20 /\ z < 20
        THEN IF item.type = "tree"
             THEN (IF dist < 35 THEN "crash" ELSE "none")
             ELSE (IF dist < 45 THEN item.type ELSE "none")
        ELSE "none"

\* A turn of the forEach without the recycling of line 313.
MovedItemNeverRecycled(item, moveDist, wx) ==
    IF ~item.active THEN item
    ELSE LET z == item.z + moveDist
         IN  [item EXCEPT !.z = z, !.active = Collision(item, z, wx) = "none"]

\* One item's turn of the forEach (lines 269-314).
MovedItem(item, moveDist, wx) ==
    IF ~item.active THEN item
    ELSE LET z == item.z + moveDist
         IN  [item EXCEPT !.z = z,
                          !.active = Collision(item, z, wx) = "none" /\ ~(z > 200)]

\* A collision test that does not skip inactive items.
FiredWhetherActive(item, moveDist, wx) == Collision(item, item.z + moveDist, wx)

Fired(item, moveDist, wx) ==
    IF item.active THEN Collision(item, item.z + moveDist, wx) ELSE "none"

\* SceneContent's useFrame (lines 370-381).
TurnedWorldX(wx, speedProp, steeringProp, delta) ==
    IF Abs(speedProp) > 100
    THEN wx + (((steeringProp * (Abs(speedProp) + 1500)) \div 1000) * delta) \div 40000
    ELSE wx

TerrainOf(wx) == IF Abs(wx) > 160 THEN "grass" ELSE "road"

CountFired(pool, moveDist, wx, what) ==
    Cardinality({i \in DOMAIN pool : Fired(pool[i], moveDist, wx) = what})

\* One animation frame of the scene under the props speed and steering. Items'
\* callback runs first (a child subscribes before its parent), then SceneContent's;
\* the callbacks reach App's handlers before App renders again.
SceneFrame(speedProp, steeringProp, delta, rnd) ==
    LET spawned  == AfterSpawn(items, speedProp, rnd)
        slot     == SpawnSlot(items, speedProp, rnd)
        moveDist == MoveDist(speedProp, delta)
        wx       == TurnedWorldX(worldX, speedProp, steeringProp, delta)
    IN  /\ Abs(wx) <= MaxWorldX
        /\ items' = [i \in DOMAIN items |-> MovedItem(spawned[i], moveDist, worldX)]
        /\ hits' = [i \in DOMAIN items |->
                       (IF i = slot THEN 0 ELSE hits[i])
                       + (IF Fired(spawned[i], moveDist, worldX) = "none" THEN 0 ELSE 1)]
        /\ worldX' = wx
        /\ Callbacks(CountFired(spawned, moveDist, worldX, "light"),
                     CountFired(spawned, moveDist, worldX, "pineapple"),
                     CountFired(spawned, moveDist, worldX, "crash"),
                     TerrainOf(wx))
        /\ last' = [op |-> "frame",
                    lights |-> CountFired(spawned, moveDist, worldX, "light"),
                    pineapples |-> CountFired(spawned, moveDist, worldX, "pineapple"),
                    trees |-> CountFired(spawned, moveDist, worldX, "crash"),
                    free |-> Available(items),
                    slot |-> slot,
                    wanted |-> Abs(speedProp) > 100 /\ rnd.roll < 15]
        /\ UNCHANGED <<storage, now, videoFresh, sensor>>

-----------------------------------------------------------------------------
(* Inputs *)

NoHands    == <<>>
TwoFists   == << [curled |-> 5, x |-> 30, y |-> 50], [curled |-> 4, x |-> 70, y |-> 50] >>
OpenHands  == << [curled |-> 0, x |-> 30, y |-> 50], [curled |-> 2, x |-> 70, y |-> 50] >>
FistsTilt  == << [curled |-> 5, x |-> 70, y |-> 60], [curled |-> 5, x |-> 30, y |-> 50] >>
OpenTilt   == << [curled |-> 1, x |-> 30, y |-> 80], [curled |-> 0, x |-> 70, y |-> 50] >>
OneFist    == << [curled |-> 5, x |-> 50, y |-> 50] >>

\* Silence, and the quietest level above the threshold that starts a game
\* (14/128 = 0.109: targetSpeed 1.87, whose first lerp step 0.09 snaps to 0).
QuietLevels == {0, 14}

-----------------------------------------------------------------------------
(* The game as App sees it: the scene is the caller of onScore, onCrash and
   onTerrainChange. *)

SceneCalls ==
    \E lights \in 0 .. 1, pineapples \in 0 .. 1, trees \in 0 .. 1 :
        /\ Callbacks(lights, pineapples, trees, "road")
        /\ last' = [Did("frame") EXCEPT !.lights = lights, !.pineapples = pineapples,
                                        !.trees = trees]
        /\ UNCHANGED <<storage, now, videoFresh, sensor, sceneVars>>

Sense ==
    \E level \in QuietLevels, hands \in {NoHands, TwoFists} : ProcessFrame(level, hands)

Next ==
    \/ Sense
    \/ VideoFrame
    \/ SyncRefs
    \/ TimerTick
    \/ RestartCooldown
    \/ restartGame
    \/ SceneCalls

Spec == Init /\ [][Next]_vars

\* The browser fires a pending interval or timeout.
FairSpec == Spec /\ WF_vars(TimerTick) /\ WF_vars(RestartCooldown)

-----------------------------------------------------------------------------
(* The scene on its own: Items and SceneContent under the props App passes down.
   The frames are long ones (a stalled tab): 2336 ms at speed 80 moves the items
   149.5, 4672 ms moves them 299. *)

SceneSpeeds    == {0, MAX_SPEED}
SceneSteerings == {0, 360}
SceneDeltas    == {2336, 4672}
SceneRandoms   ==
    {[roll |-> 50, r |-> 0,  u1 |-> 0,  u2 |-> 0, zr |-> 0],    \* no spawn
     [roll |-> 0,  r |-> 0,  u1 |-> 99, u2 |-> 0, zr |-> 0],    \* tree at x = 22
     [roll |-> 0,  r |-> 50, u1 |-> 50, u2 |-> 0, zr |-> 0],    \* light at x = 0
     [roll |-> 0,  r |-> 99, u1 |-> 50, u2 |-> 0, zr |-> 0]}    \* pineapple at x = 0

Frame ==
    \E sp \in SceneSpeeds, st \in SceneSteerings, dt \in SceneDeltas, rnd \in SceneRandoms :
        SceneFrame(sp, st, dt, rnd)

SceneNext == Frame \/ SyncRefs

SceneSpec == Init /\ [][SceneNext]_vars

-----------------------------------------------------------------------------
(* The pool's turnover: the car drives straight on, at a standstill or at full
   speed, and frames keep running while it moves. *)

StraightFrame(sp) ==
    \E dt \in SceneDeltas, rnd \in SceneRandoms : SceneFrame(sp, 0, dt, rnd)

StandingFrame == StraightFrame(0)

MovingFrame == StraightFrame(MAX_SPEED)

RecycleNext == StandingFrame \/ MovingFrame

RecycleSpec == Init /\ [][RecycleNext]_vars /\ WF_vars(MovingFrame)

-----------------------------------------------------------------------------
(* The Controller on its own: silence, so that only the hands drive App. *)

AllPoses == {NoHands, OneFist, TwoFists, OpenHands, FistsTilt, OpenTilt}

Watch == \E hands \in AllPoses : ProcessFrame(0, hands)

CtlNext == Watch \/ VideoFrame

CtlSpec == Init /\ [][CtlNext]_vars

-----------------------------------------------------------------------------
(* The car's speed: one game, louder input, the scene reporting crashes and
   terrain. 13/128 is above the threshold without starting a game, 16/128 asks
   for speed 5. *)

DriveLevels == {0, 13, 16}

Drive ==
    \E level \in DriveLevels, hands \in {NoHands, TwoFists} : ProcessFrame(level, hands)

Road ==
    \E trees \in 0 .. 1, type \in {"road", "grass"} :
        /\ Callbacks(0, 0, trees, type)
        /\ last' = [Did("frame") EXCEPT !.trees = trees]
        /\ UNCHANGED <<storage, now, videoFresh, sensor, sceneVars>>

PhysicsNext ==
    \/ Drive
    \/ VideoFrame
    \/ SyncRefs
    \/ TimerTick
    \/ RestartCooldown
    \/ Road

PhysicsSpec == Init /\ [][PhysicsNext]_vars

-----------------------------------------------------------------------------
(* The car at full throttle: a shout at the volume that asks for MAX_SPEED
   (64/128 = 0.5), braking on the frames that bring no new video, through crashes,
   terrain changes, the end of the game and restarts. *)

ThrottleLevels == {64}

Throttle == \E level \in ThrottleLevels : ProcessFrame(level, TwoFists)

ThrottleNext ==
    \/ Throttle
    \/ VideoFrame
    \/ SyncRefs
    \/ TimerTick
    \/ RestartCooldown
    \/ restartGame
    \/ Road

ThrottleSpec == Init /\ [][ThrottleNext]_vars

-----------------------------------------------------------------------------
(* The car among the trees: App driven by the Controller and the timer, with the
   scene's own frames delivering the crashes. The scene runs under any of the props
   App can pass down; two 2336 ms frames bring a tree spawned at z = -300 to the car. *)

TreeRandoms == {rnd \in SceneRandoms : rnd.roll >= 15 \/ rnd.r < 50}

TreeFrame ==
    \E st \in SceneSteerings, rnd \in TreeRandoms :
        SceneFrame(MAX_SPEED, st, 2336, rnd)

Rev == ProcessFrame(16, TwoFists)

CrashNext ==
    \/ Rev
    \/ VideoFrame
    \/ SyncRefs
    \/ TimerTick
    \/ RestartCooldown
    \/ TreeFrame

CrashSpec == Init /\ [][CrashNext]_vars

-----------------------------------------------------------------------------
(* The car off the road: one game at full throttle while the scene steers the car
   onto the grass and back. A 2000 ms frame at speed 80 and steering 0.4 or -0.4
   moves the car 19 to the side. *)

NoSpawn == [roll |-> 50, r |-> 0, u1 |-> 0, u2 |-> 0, zr |-> 0]

SteerFrame == \E st \in {-400, 400} : SceneFrame(MAX_SPEED, st, 2000, NoSpawn)

GrassNext ==
    \/ Throttle
    \/ VideoFrame
    \/ SyncRefs
    \/ TimerTick
    \/ RestartCooldown
    \/ SteerFrame

GrassSpec == Init /\ [][GrassNext]_vars

-----------------------------------------------------------------------------
(* The player holds the wheel: both fists clenched and tilted in every frame of the
   loop, quiet or loud, while the camera delivers its frames at its own pace. *)

Grip == \E level \in QuietLevels : ProcessFrame(level, FistsTilt)

GripNext ==
    \/ Grip
    \/ VideoFrame
    \/ SyncRefs
    \/ TimerTick
    \/ RestartCooldown

GripSpec == Init /\ [][GripNext]_vars

-----------------------------------------------------------------------------
(* The high score functions on their own, called at any time with any score. *)

CallGet ==
    /\ storage' = GetWeeklyHighScore(storage, now).storage
    /\ last' = Did("getWeeklyHighScore")
    /\ UNCHANGED <<appVars, now, videoFresh, sensor, sceneVars, game>>

CallSave ==
    \E newScore \in 0 .. MaxScore :
        /\ storage' = SaveHighScore(storage, now, newScore).storage
        /\ last' = Did("saveHighScore")
        /\ UNCHANGED <<appVars, now, videoFresh, sensor, sceneVars, game>>

\* The clock moves on by a millisecond or by a week.
TimePasses ==
    \E d \in {1, ONE_WEEK} :
        /\ (now \div ONE_WEEK) + (d \div ONE_WEEK) <= MaxWeeks
        /\ (now % ONE_WEEK) + (d % ONE_WEEK) <= MaxWeeks
        /\ now' = now + d
        /\ last' = Did("timePasses")
        /\ UNCHANGED <<appVars, storage, videoFresh, sensor, sceneVars, game>>

StoreNext == CallGet \/ CallSave \/ TimePasses

StoreSpec == Init /\ [][StoreNext]_vars

-----------------------------------------------------------------------------
(* Properties *)

\* C1: the steering a sensor update passes to onUpdate is non-zero only when the
\* update also reports both fists clenched.
C1_SteeringOnlyWithFists == sensor.steering # 0 => sensor.fists

\* C2: a sensor update raises speed only if the volume is above the threshold and
\* both fists are clenched, and never once the game is finished.
C2_SpeedRisesOnlyLoudClenchedUnfinished ==
    [][(last'.op = "processFrame" /\ speed' > speed)
        => (sensor'.volume > VOLUME_THRESHOLD /\ sensor'.fists
            /\ gameStatus # "finished")]_vars

\* A string localStorage holds is an integer: decimal digits in canonical form.
IsInteger(str) ==
    /\ Len(str) >= 1
    /\ \A i \in 1 .. Len(str) : str[i] \in 0 .. 9
    /\ toString(parseInt(str)) = str

\* C3 as stated: localStorage holds at most one entry, and it is an integer.
C3_SingleIntegerEntry ==
    /\ Cardinality(DOMAIN storage) <= 1
    /\ \A k \in DOMAIN storage : IsInteger(storage[k])

\* C3 as amended: localStorage holds at most the two entries voom_highscore and
\* voom_highscore_date, and each is an integer.
C3_TwoIntegerEntries ==
    /\ DOMAIN storage \subseteq {KeyScore, KeyDate}
    /\ \A k \in DOMAIN storage : IsInteger(storage[k])

C3_BothStored ==
    /\ last.op = "saveHighScore"
    /\ DOMAIN storage = {KeyScore, KeyDate}
    /\ parseInt(storage[KeyScore]) = MaxScore
    /\ parseInt(storage[KeyDate]) = now /\ now > ONE_WEEK

\* The pool keeps its slots: one per id, ids 0 .. PoolSize - 1.
PoolShape ==
    /\ DOMAIN items = 0 .. PoolSize - 1
    /\ \A i \in DOMAIN items : items[i].id = i

\* C4: the pool has exactly PoolSize slots (80 in the source) with ids
\* 0 .. PoolSize - 1; a frame never adds or removes a slot, spawns into at most one
\* slot, only into a slot that was inactive, and into none when the pool is full.
C4_PoolFixedSpawnIntoInactive ==
    [][/\ PoolShape /\ PoolShape'
       /\ \A i \in DOMAIN items :
              items[i].active => /\ items'[i].type = items[i].type
                                 /\ items'[i].x = items[i].x
                                 /\ items'[i].z >= items[i].z
       /\ Cardinality({i \in DOMAIN items :
                          ~items[i].active /\ items'[i] # items[i]}) <= 1]_vars

C4_FullPoolRefusedSpawn ==
    /\ last.op = "frame" /\ last.wanted /\ last.free = -1 /\ last.slot = -1
    /\ \A i \in DOMAIN items : items[i].z > -3000

\* C5: while the game is not finished a frame that collects lights and pineapples
\* adds 1 per light and 5 per pineapple, trees adding nothing; score changes in no
\* other way except restartGame's reset to 0.
C5_ScorePerItem ==
    [][/\ score' # score
           => \/ last'.op = "restartGame" /\ score' = 0
              \/ /\ last'.op = "frame"
                 /\ score' = score + last'.lights + 5 * last'.pineapples
       /\ (last'.op = "frame" /\ gameStatus # "finished")
           => score' = score + last'.lights + 5 * last'.pineapples]_vars

C5_LightAndPineapple ==
    /\ last.op = "frame" /\ last.lights = 1 /\ last.pineapples = 1 /\ last.trees = 1
    /\ score = 6 /\ gameStatus = "playing"

\* C6: timeLeft stays in 0 .. GameSeconds (120 in the source); it changes only by
\* -1 on a tick while the game is playing, or back to GameSeconds in restartGame,
\* so it stays as it is while the game is idle or finished.
C6_TimeLeftSteps ==
    [][/\ timeLeft \in 0 .. GameSeconds /\ timeLeft' \in 0 .. GameSeconds
       /\ timeLeft' # timeLeft
           => \/ /\ gameStatus = "playing"
                 /\ last'.op \in {"tick", "finishGame"}
                 /\ timeLeft' = timeLeft - 1
              \/ last'.op = "restartGame" /\ timeLeft' = GameSeconds]_vars

C6_ResetAfterFullGame ==
    /\ last.op = "restartGame" /\ timeLeft = GameSeconds /\ game.ticks = GameSeconds
    /\ gameStatus = "idle"

\* C7: once the game is playing, and the timer keeps ticking, it becomes finished
\* with timeLeft = 0, after exactly GameSeconds ticks, whatever else happens in
\* between; finishGame runs once per game.
C7_GameEnds ==
    /\ (gameStatus = "playing") ~> (gameStatus = "finished" /\ timeLeft = 0)
    /\ [](game.finishes <= 1)
    /\ [](gameStatus = "finished"
            => timeLeft = 0 /\ game.ticks = GameSeconds /\ game.finishes = 1)
    /\ [](gameStatus = "playing" => game.finishes = 0 /\ game.ticks = GameSeconds - timeLeft)

C7_FinishedOnce ==
    /\ gameStatus = "finished" /\ timeLeft = 0
    /\ game.ticks = GameSeconds /\ game.finishes = 1
    /\ score > 0 /\ last.op = "finishGame"

\* The car can reach an item: closer than 3.5 to a tree, 4.5 to a light or pineapple.
InReach(item, wx) ==
    Abs(item.x - wx) < (IF item.type = "tree" THEN 35 ELSE 45)

\* C8: every active item that passes the car's z within reach fires its callback
\* (onScore or onCrash) in the frame that takes it past, whatever the frame's step.
C8_NothingPassesUnnoticed ==
    [][\A i \in DOMAIN items :
          (/\ items[i].active /\ items[i].z < 0 /\ items'[i].z >= 0
           /\ items'[i].type = items[i].type /\ items'[i].x = items[i].x
           /\ InReach(items[i], worldX))
          => hits'[i] = hits[i] + 1]_vars

\* C9: while the car moves and frames run, every active slot becomes inactive
\* again; and no frame leaves an active item beyond z = 20.
C9_SlotsComeBack ==
    /\ \A i \in 0 .. PoolSize - 1 : items[i].active ~> ~items[i].active
    /\ [](\A i \in DOMAIN items : items[i].active => items[i].z <= 200)

C9_RecycledBehindCar ==
    /\ last.op = "frame"
    /\ \E i \in DOMAIN items : ~items[i].active /\ items[i].z > 200 /\ hits[i] = 0

\* The high score localStorage holds, as getItem and parseInt read it.
StoredHigh(st) == IF Falsy(st, KeyScore) THEN 0 ELSE parseInt(st[KeyScore])

\* C10: when a game finishes, the high score in localStorage is at least the
\* score the game finished with.
C10_HighScoreCoversScore ==
    [][last'.op = "finishGame" => StoredHigh(storage') >= score]_vars

\* C11: a restart (restartGame taking gameStatus from finished to idle) happens
\* only once canRestart has become true, one second after finishGame.
C11_RestartWaitsForCooldown ==
    [][(last'.op = "restartGame" /\ gameStatus = "finished" /\ gameStatus' = "idle")
        => canRestart]_vars

\* The speed a sensor update computes from the lerp result next, when the terrain
\* it reads is tref.
SnappedSpeed(next) == IF Abs(next) < 10 THEN 0 ELSE Max(0, Min(next, MAX_SPEED))

\* C12: speed stays within 0 .. MAX_SPEED (80) whatever the sequence of sensor
\* updates, crashes, terrain changes, finishes and restarts, and a sensor update
\* whose lerp result is below 0.1 in magnitude leaves speed at exactly 0.
C12_SpeedInRangeAndSnapped ==
    /\ [](speed \in 0 .. MAX_SPEED /\ speed \notin 1 .. 9)
    /\ [][(last'.op = "processFrame" /\ gameStatusRef # "finished")
            => \E tref \in {terrainRef, terrain} :
                   speed' = SnappedSpeed(Lerp(speed,
                                Penalised(TargetSpeed(sensor'.volume, sensor'.fists),
                                          tref)))]_vars

C12_NearTopSpeed ==
    /\ last.op = "processFrame" /\ speed > MAX_SPEED - 20
    /\ sensor.volume = MAX_EFFECTIVE_VOLUME /\ gameStatus = "playing"

\* C13: gameStatus moves only from idle to playing (by a sensor update), from
\* playing to finished (by the timer's expiry) and from finished to idle (by
\* restartGame), also while gameStatusRef lags behind gameStatus.
C13_StatusCycle ==
    [][gameStatus' # gameStatus
        => \/ gameStatus = "idle" /\ gameStatus' = "playing" /\ last'.op = "processFrame"
           \/ gameStatus = "playing" /\ gameStatus' = "finished" /\ last'.op = "finishGame"
           \/ gameStatus = "finished" /\ gameStatus' = "idle" /\ last'.op = "restartGame"]_vars

C13_SecondGameRefLagging ==
    /\ gameStatus = "playing" /\ gameStatusRef = "idle" /\ last.op = "processFrame"
    /\ canRestart /\ highScore > 0

\* C14: the game leaves idle for playing only in a state where the car's speed is
\* greater than 1.
C14_StartsOnlyWhenDriving ==
    [][(gameStatus = "idle" /\ gameStatus' = "playing") => speed' > 100]_vars

\* C15: while gameStatus is finished, score does not change: every onScore the
\* scene delivers between the finish and restartGame is ignored.
C15_ScoreFrozenWhenFinished ==
    [][(gameStatus = "finished" /\ gameStatus' = "finished") => score' = score]_vars

\* C16: a frame in which the car hits a tree leaves that tree inactive and, in a
\* game that is not finished, speed at 0; in a finished game the crash is ignored
\* and speed is still 0 after it.
C16_CrashStopsCar ==
    [][/\ \A i \in DOMAIN items :
              (/\ items'[i] # items[i] /\ items'[i].type = "tree"
               /\ items'[i].z > -20 /\ items'[i].z < 20
               /\ InReach(items'[i], worldX))
              => ~items'[i].active
       /\ (last'.op = "frame" /\ last'.trees > 0) => speed' = 0]_vars

\* C17: a slot makes at most one onScore or onCrash call per activation: the item
\* that collides is deactivated in the same frame and calls nothing more until the
\* slot is spawned again.
C17_OneCallbackPerActivation ==
    /\ \A i \in DOMAIN items : hits[i] <= 1
    /\ \A i \in DOMAIN items : items[i].active => hits[i] = 0

C17_CollectedItemStaysQuiet ==
    /\ last.op = "frame" /\ last.lights + last.pineapples + last.trees = 0
    /\ \E i \in DOMAIN items :
           /\ ~items[i].active /\ hits[i] = 1
           /\ items[i].z > -20 /\ items[i].z < 20 /\ InReach(items[i], worldX)

\* The terrain the scene reports for the car's position: grass beyond 16.
ReportedTerrain == IF worldX > 160 \/ worldX < -160 THEN "grass" ELSE "road"

\* C18 as stated: the terrain is grass exactly when |worldX| > 16, and a sensor
\* update processed while the terrain is grass leaves speed at most
\* max(previous speed, 24).
C18_GrassCapsSpeed ==
    /\ [](terrain = ReportedTerrain)
    /\ [][(last'.op = "processFrame" /\ terrain = "grass")
            => speed' <= Max(speed, 2400)]_vars

\* C18 as amended: the terrain is grass exactly when |worldX| > 16, and a sensor
\* update processed while both the terrain and its mirror terrainRef are grass
\* leaves speed at most max(previous speed, 24).
C18_GrassCapsSpeedOnceMirrored ==
    /\ [](terrain = ReportedTerrain)
    /\ [][(last'.op = "processFrame" /\ terrain = "grass" /\ terrainRef = "grass")
            => speed' <= Max(speed, 2400)]_vars

C18_TopSpeedOnGrass ==
    /\ last.op = "processFrame" /\ terrain = "grass" /\ terrainRef = "grass"
    /\ worldX = 190 /\ sensor.volume = MAX_EFFECTIVE_VOLUME /\ sensor.fists
    /\ speed > 2300 /\ speed <= 2400

\* C19: while the player keeps both fists clenched in view of the camera, every
\* sensor update reports fistsClenched = true and the steering of the hands, also
\* when the video's currentTime has not moved since the previous processFrame.
C19_FistsReportedEveryUpdate ==
    last.op = "processFrame"
        => sensor.fists /\ sensor.steering = SteeringOf(FistsTilt[1], FistsTilt[2])

====
